---- MODULE Spec2Model ----
(***************************************************************************)
(* A model of the slide translator's core (src/slide_translator):          *)
(*   - the marker encoder   create_formatted_text_with_markers             *)
(*   - the marker decoder   apply_formatted_text_to_runs                   *)
(*   - the assembler        process_presentation                           *)
(*   - the walker           extract_paragraphs_with_run_mapping            *)
(* and of the walker of the service variant (src/services),                *)
(* PPTXService.extract_texts.                                              *)
(* A Python str is a sequence of one-character strings, so that replace,   *)
(* re.split and strip are computed character by character as Python does.  *)
(* A run is a record [text, bold, italic]; bold and italic are python-pptx  *)
(* tri-state flags, written "True", "False" and "None".                     *)
(***************************************************************************)
EXTENDS Naturals, Sequences, FiniteSets, TLC

VARIABLES
    fpc,        \* position of the function harness: "ready" or "done"
    runs,       \* original_runs: the run objects of one paragraph, in order
    runs0,      \* the runs as they were before the call
    marked,     \* the marked string: the encoder's result / the decoder's argument
    pc,         \* position of process_presentation
    slides,     \* prs.slides: the shape tree; a paragraph is named by its place in paras
    paras,      \* the runs of every paragraph of the loaded presentation
    paras0,     \* paras as loaded
    outDir,     \* the directory of output_filepath: "exists", "missing", or
                \* "none" when the path has no directory part
    paragraph_runs,         \* dict of the walk: entries [id, ref], in insertion order
    texts_to_translate,     \* dict sent to the translator: entries [id, text]
    translated_paragraphs,  \* dict the translator returned: id -> value
    pending,    \* keys of translated_paragraphs the apply loop has not reached
    calls,      \* requests sent to the translation service
    submitted,  \* the mappings handed to the translation call, one per invocation
    returned,   \* what the call of the assembler returned, NoReturn before it returns
    rewalk,     \* paragraph_runs of a second walk of the presentation
    text_mapping,   \* PPTXService.text_mapping: [done, entries], the entries
                    \* [id, ref, run, text] in insertion order
    saved,      \* the output file: <<>> if none was written, else <<paragraphs>>
    error       \* the exception that ended the call, or "none"

fvars == <<fpc, runs, runs0, marked>>

pvars == <<pc, slides, paras, paras0, outDir, paragraph_runs, texts_to_translate,
           translated_paragraphs, pending, calls, submitted, returned, saved, error>>

wvars == <<rewalk, text_mapping>>

vars == <<fvars, pvars, wvars>>

-----------------------------------------------------------------------------
(* Bounds of the model *)

\* most runs in a paragraph handed to the encoder
MaxEncRuns == 3
\* most runs in a paragraph handed to the decoder
MaxDecRuns == 3
\* most pieces (markers or words) a translated string of a multi-run paragraph
\* is put together from, the listed scenario strings apart
MaxPieces == 1
\* most pieces a translated string of a single-run paragraph is put together from
MaxSinglePieces == 3
\* most paragraphs in a presentation
MaxParas == 2
\* most groups a text shape is nested in
MaxDepth == 3
\* most runs in a paragraph that is encoded and decoded again
MaxRoundRuns == 3

-----------------------------------------------------------------------------
(* Strings *)

BOLD_START   == <<"<","B","O","L","D","_","S","T","A","R","T",">">>
BOLD_END     == <<"<","B","O","L","D","_","E","N","D",">">>
ITALIC_START == <<"<","I","T","A","L","I","C","_","S","T","A","R","T",">">>
ITALIC_END   == <<"<","I","T","A","L","I","C","_","E","N","D",">">>

\* the marker list of the single-run branch, in its order
Markers == <<BOLD_START, BOLD_END, ITALIC_START, ITALIC_END>>

Empty == <<>>
Hello == <<"H","e","l","l","o"," ">>
World == <<"W","o","r","l","d">>
Ola   == <<"O","l","á"," ">>
Mundo == <<"M","u","n","d","o">>
Space == <<" ">>

\* the characters str.strip() removes that the model uses
Whitespace == {" ", "\t", "\n"}

\* bool(s.strip()): s holds a character that is not whitespace
NonBlank(s) == \E i \in 1..Len(s) : s[i] \notin Whitespace

RECURSIVE Concat(_)
\* "".join(parts)
Concat(parts) ==
    IF parts = <<>> THEN <<>> ELSE Head(parts) \o Concat(Tail(parts))

\* old occurs in s at position i (counted from 1)
MatchAt(s, i, old) ==
    /\ i + Len(old) - 1 <= Len(s)
    /\ s[i] = old[1]
    /\ SubSeq(s, i, i + Len(old) - 1) = old

\* t occurs in s
Contains(s, t) == \E i \in 1..Len(s) : MatchAt(s, i, t)

ContainsToken(s) == \E k \in 1..Len(Markers) : Contains(s, Markers[k])

RECURSIVE ReplaceFrom(_, _, _, _)
\* the scan of s.replace(old, "") from position i; start is where the text
\* kept since the last occurrence begins
ReplaceFrom(s, old, i, start) ==
    IF i > Len(s) THEN SubSeq(s, start, Len(s))
    ELSE IF MatchAt(s, i, old)
         THEN SubSeq(s, start, i - 1)
                  \o ReplaceFrom(s, old, i + Len(old), i + Len(old))
         ELSE ReplaceFrom(s, old, i + 1, start)

\* s.replace(old, ""): one left-to-right pass over the non-overlapping occurrences
Replace(s, old) == ReplaceFrom(s, old, 1, 1)

\* the marker that matches at position i of s, in the order of the alternation
TokenAt(s, i) ==
    IF MatchAt(s, i, BOLD_START) THEN BOLD_START
    ELSE IF MatchAt(s, i, BOLD_END) THEN BOLD_END
    ELSE IF MatchAt(s, i, ITALIC_START) THEN ITALIC_START
    ELSE IF MatchAt(s, i, ITALIC_END) THEN ITALIC_END
    ELSE <<>>

RECURSIVE SplitFrom(_, _, _)
\* the scan of re.split from position i; start is where the current text part begins
SplitFrom(s, i, start) ==
    IF i > Len(s) THEN << SubSeq(s, start, Len(s)) >>
    ELSE LET tok == TokenAt(s, i)
         IN  IF tok # <<>>
             THEN << SubSeq(s, start, i - 1), tok >>
                      \o SplitFrom(s, i + Len(tok), i + Len(tok))
             ELSE SplitFrom(s, i + 1, start)

\* re.split(r'(<BOLD_START>|<BOLD_END>|<ITALIC_START>|<ITALIC_END>)', s):
\* text, marker, text, ..., text; a text part may be empty
Split(s) == SplitFrom(s, 1, 1)

-----------------------------------------------------------------------------
(* Runs *)

Tri == {"True", "False", "None"}

Run(t, b, i) == [text |-> t, bold |-> b, italic |-> i]

\* x if x is not None else False
OrFalse(x) == IF x = "None" THEN "False" ELSE x

RECURSIVE JoinTexts(_)
\* the paragraph's text: its run texts, concatenated
JoinTexts(rs) ==
    IF rs = <<>> THEN <<>> ELSE Head(rs).text \o JoinTexts(Tail(rs))

-----------------------------------------------------------------------------
(* The marker encoder: create_formatted_text_with_markers *)

\* current_bold and current_italic before the first run
InitialFormat == "None"

\* the marker for a change of the bold state to rb
BoldMarker(rb) == IF rb = "True" THEN BOLD_START ELSE BOLD_END

\* the marker for a change of the italic state to ri
ItalicMarker(ri) == IF ri = "True" THEN ITALIC_START ELSE ITALIC_END

\* one pass of the loop body for a run with text: the markers for the states
\* that changed, then the run's text
EncodeRun(run, result, cb, ci) ==
    LET rb == OrFalse(run.bold)
        ri == OrFalse(run.italic)
        r1 == IF rb # cb THEN result \o BoldMarker(rb) ELSE result
        r2 == IF ri # ci THEN r1 \o ItalicMarker(ri) ELSE r1
    IN  [result |-> r2 \o run.text, cb |-> rb, ci |-> ri]

\* a run takes part in the loop only if its text is not empty
SkipsRun(run) == run.text = <<>>

RECURSIVE EncodeLoop(_, _, _, _)
\* the for loop over original_runs
EncodeLoop(rs, result, cb, ci) ==
    IF rs = <<>> THEN [result |-> result, cb |-> cb, ci |-> ci]
    ELSE IF SkipsRun(Head(rs)) THEN EncodeLoop(Tail(rs), result, cb, ci)
    ELSE LET st == EncodeRun(Head(rs), result, cb, ci)
         IN  EncodeLoop(Tail(rs), st.result, st.cb, st.ci)

\* a closing step that forgets the bold state
CloseOpen_ItalicOnly(result, cb, ci) ==
    IF ci = "True" THEN result \o ITALIC_END ELSE result

\* close any open formatting at the end
CloseOpen(result, cb, ci) ==
    LET r1 == IF cb = "True" THEN result \o BOLD_END ELSE result
    IN  IF ci = "True" THEN r1 \o ITALIC_END ELSE r1

create_formatted_text_with_markers(original_runs) ==
    IF original_runs = <<>> THEN <<>>
    ELSE LET st == EncodeLoop(original_runs, <<>>, InitialFormat, InitialFormat)
         IN  CloseOpen(st.result, st.cb, st.ci)

-----------------------------------------------------------------------------
(* The marker decoder: apply_formatted_text_to_runs *)

\* a decoder that does not clear the runs
ClearRuns_Keep(rs) == rs

\* clear all runs first
ClearRuns(rs) == [i \in 1..Len(rs) |-> [rs[i] EXCEPT !.text = <<>>]]

RECURSIVE StripFrom(_, _)
\* the replace loop over the marker list, from marker k on
StripFrom(s, k) ==
    IF k > Len(Markers) THEN s ELSE StripFrom(Replace(s, Markers[k]), k + 1)

\* clean_text: every marker replaced by "", one marker after the other
StripMarkers(s) == StripFrom(s, 1)

\* a part that is no marker is written to a run only if part.strip() is true
IsTextContent(part) == NonBlank(part)

\* a decoder that writes no flag
ApplyFormat_Never(run, cb, ci) == run

\* a decoder that sets the flags whatever they were
ApplyFormat_Force(run, cb, ci) == [run EXCEPT !.bold = cb, !.italic = ci]

\* the formatting given to a run that receives a part: a flag that is None stays
ApplyFormat(run, cb, ci) ==
    [run EXCEPT !.bold   = IF @ # "None" THEN cb ELSE @,
                !.italic = IF @ # "None" THEN ci ELSE @]

RECURSIVE ApplyParts_Overflow(_, _, _, _, _)
\* a decoder that adds the parts beyond the last run to the last run
ApplyParts_Overflow(parts, rs, cb, ci, idx) ==
    IF parts = <<>> THEN rs
    ELSE LET part == Head(parts)
             rest == Tail(parts)
         IN  IF part = BOLD_START THEN ApplyParts_Overflow(rest, rs, "True", ci, idx)
             ELSE IF part = BOLD_END THEN ApplyParts_Overflow(rest, rs, "False", ci, idx)
             ELSE IF part = ITALIC_START THEN ApplyParts_Overflow(rest, rs, cb, "True", idx)
             ELSE IF part = ITALIC_END THEN ApplyParts_Overflow(rest, rs, cb, "False", idx)
             ELSE IF IsTextContent(part) /\ idx < Len(rs)
                  THEN ApplyParts_Overflow(rest,
                           [rs EXCEPT ![idx + 1] =
                               ApplyFormat([@ EXCEPT !.text = part], cb, ci)],
                           cb, ci, idx + 1)
                  ELSE IF IsTextContent(part)
                  THEN ApplyParts_Overflow(rest,
                           [rs EXCEPT ![Len(rs)].text = @ \o part], cb, ci, idx)
                  ELSE ApplyParts_Overflow(rest, rs, cb, ci, idx)

RECURSIVE ApplyParts(_, _, _, _, _)
\* the for loop over parts; idx is current_run_idx (counted from 0)
ApplyParts(parts, rs, cb, ci, idx) ==
    IF parts = <<>> THEN rs
    ELSE LET part == Head(parts)
             rest == Tail(parts)
         IN  IF part = BOLD_START THEN ApplyParts(rest, rs, "True", ci, idx)
             ELSE IF part = BOLD_END THEN ApplyParts(rest, rs, "False", ci, idx)
             ELSE IF part = ITALIC_START THEN ApplyParts(rest, rs, cb, "True", idx)
             ELSE IF part = ITALIC_END THEN ApplyParts(rest, rs, cb, "False", idx)
             ELSE IF IsTextContent(part) /\ idx < Len(rs)
                  THEN ApplyParts(rest,
                           [rs EXCEPT ![idx + 1] =
                               ApplyFormat([@ EXCEPT !.text = part], cb, ci)],
                           cb, ci, idx + 1)
                  ELSE ApplyParts(rest, rs, cb, ci, idx)

\* the runs after the call (the function mutates them in place)
apply_formatted_text_to_runs(original_runs, translated_text_with_markers) ==
    IF original_runs = <<>> THEN original_runs
    ELSE LET cleared == ClearRuns(original_runs)
         IN  IF Len(original_runs) = 1
             THEN << [cleared[1] EXCEPT
                        !.text = StripMarkers(translated_text_with_markers)] >>
             ELSE ApplyParts(Split(translated_text_with_markers), cleared,
                             "False", "False", 0)

-----------------------------------------------------------------------------
(* The presentation: slides, shapes, paragraphs *)

TextShape(ps) == [kind |-> "text", paras |-> ps]
GroupShape(shs) == [kind |-> "group", shapes |-> shs]
TableShape(rows) == [kind |-> "table", rows |-> rows]
ChartShape(ps) == [kind |-> "chart", title |-> ps]
Picture == [kind |-> "picture"]

Slide(shs, notes) == [shapes |-> shs, has_notes_slide |-> notes # <<>>, notes |-> notes]

has_text_frame(shape) == shape.kind = "text"

has_table(shape) == shape.kind = "table"

RECURSIVE IterShapes(_)
\* _iter_shapes: the shapes in order, a group replaced by the shapes in it
IterShapes(shapes) ==
    IF shapes = <<>> THEN <<>>
    ELSE (IF Head(shapes).kind = "group"
          THEN IterShapes(Head(shapes).shapes)
          ELSE << Head(shapes) >>) \o IterShapes(Tail(shapes))

\* a walker that adds every paragraph whose combined text is not empty
ParaEntries_NonEmpty(prefix, refs, ps) ==
    SelectSeq([i \in 1..Len(refs) |->
                  [id |-> prefix \o "_p" \o ToString(i - 1), ref |-> refs[i]]],
              LAMBDA e : JoinTexts(ps[e.ref]) # <<>>)

\* the paragraphs of one text frame that are added: combined_text.strip() is true
ParaEntries(prefix, refs, ps) ==
    SelectSeq([i \in 1..Len(refs) |->
                  [id |-> prefix \o "_p" \o ToString(i - 1), ref |-> refs[i]]],
              LAMBDA e : NonBlank(JoinTexts(ps[e.ref])))

\* a walker whose table ids leave out the row
TableEntries_NoRow(prefix, rows, ps) ==
    Concat([r \in 1..Len(rows) |->
        Concat([c \in 1..Len(rows[r]) |->
            ParaEntries(prefix \o "_t_c" \o ToString(c - 1), rows[r][c], ps)])])

\* the paragraphs of the cells of a table, row by row
TableEntries(prefix, rows, ps) ==
    Concat([r \in 1..Len(rows) |->
        Concat([c \in 1..Len(rows[r]) |->
            ParaEntries(prefix \o "_t_r" \o ToString(r - 1) \o "_c" \o ToString(c - 1),
                        rows[r][c], ps)])])

ShapeEntries(slide_idx, shape_idx, shape, ps) ==
    LET prefix == "s" \o ToString(slide_idx) \o "_sh" \o ToString(shape_idx)
    IN  (IF has_text_frame(shape) THEN ParaEntries(prefix, shape.paras, ps) ELSE <<>>)
        \o (IF has_table(shape) THEN TableEntries(prefix, shape.rows, ps) ELSE <<>>)

SlideEntries(slide_idx, slide, ps) ==
    LET flat == IterShapes(slide.shapes)
    IN  Concat([k \in 1..Len(flat) |-> ShapeEntries(slide_idx, k - 1, flat[k], ps)])
        \o (IF slide.has_notes_slide
            THEN ParaEntries("s" \o ToString(slide_idx) \o "_notes", slide.notes, ps)
            ELSE <<>>)

RECURSIVE DictFrom(_, _)
\* a dict filled by d[e.id] = e for the entries in order: a key set again keeps
\* its place and takes the new value
DictFrom(entries, d) ==
    IF entries = <<>> THEN d
    ELSE LET e == Head(entries)
         IN  IF \E i \in 1..Len(d) : d[i].id = e.id
             THEN DictFrom(Tail(entries),
                           [i \in 1..Len(d) |-> IF d[i].id = e.id THEN e ELSE d[i]])
             ELSE DictFrom(Tail(entries), Append(d, e))

\* a numbering of the slides that carries on from the walk made before
FirstSlideIndex_Carried == Len(paragraph_runs)

\* enumerate(prs.slides) counts from 0
FirstSlideIndex == 0

\* paragraph_runs of extract_paragraphs_with_run_mapping
extract_paragraphs_with_run_mapping(sl, ps) ==
    DictFrom(Concat([i \in 1..Len(sl) |->
                        SlideEntries(FirstSlideIndex + i - 1, sl[i], ps)]), <<>>)

\* paragraph_texts of extract_paragraphs_with_run_mapping: set together with
\* paragraph_runs, under the same ids
paragraph_texts(sl, ps) ==
    LET d == extract_paragraphs_with_run_mapping(sl, ps)
    IN  [i \in 1..Len(d) |-> [id |-> d[i].id, text |-> JoinTexts(ps[d[i].ref])]]

Keys(d) == {d[i].id : i \in 1..Len(d)}

RefOf(d, id) == d[CHOOSE i \in 1..Len(d) : d[i].id = id].ref

\* a marking loop that stops after the first paragraph
MarkedTexts_FirstOnly(d, ps) ==
    SelectSeq([i \in 1..Len(d) |->
                  [id |-> d[i].id,
                   text |-> IF i = 1 THEN create_formatted_text_with_markers(ps[d[i].ref])
                            ELSE <<>>]],
              LAMBDA e : NonBlank(e.text))

\* texts_to_translate: the marked text of each paragraph of the walk, kept if
\* marked_text.strip() is true
MarkedTexts(d, ps) ==
    SelectSeq([i \in 1..Len(d) |->
                  [id |-> d[i].id,
                   text |-> create_formatted_text_with_markers(ps[d[i].ref])]],
              LAMBDA e : NonBlank(e.text))

-----------------------------------------------------------------------------
(* The walker of the service variant: PPTXService.extract_texts *)

\* text_mapping before extract_texts has run
NotExtracted == [done |-> FALSE, entries |-> <<>>]

RECURSIVE LStrip(_)
LStrip(s) == IF s # <<>> /\ Head(s) \in Whitespace THEN LStrip(Tail(s)) ELSE s

RECURSIVE RStrip(_)
RStrip(s) == IF s # <<>> /\ s[Len(s)] \in Whitespace THEN RStrip(SubSeq(s, 1, Len(s) - 1)) ELSE s

\* str.strip()
Strip(s) == RStrip(LStrip(s))

\* a paragraph of one run is taken for a heading up to this many characters
HeadingLimit == 50

\* the runs of a paragraph that get a run id: run.text.strip() is true
RunEntries(ref, p, first) ==
    LET ks == SelectSeq([k \in 1..Len(p) |-> k], LAMBDA k : NonBlank(p[k].text))
    IN  [j \in 1..Len(ks) |->
            [id |-> "run_" \o ToString(first + j - 1), ref |-> ref, run |-> ks[j],
             text |-> p[ks[j]].text]]

RECURSIVE extract_from_text_frame(_, _, _)
\* _extract_from_text_frame: the paragraphs of one text frame, the counters
\* carried in st; the paragraphs of the model are of level 0
extract_from_text_frame(refs, ps, st) ==
    IF refs = <<>> THEN st
    ELSE LET p == ps[Head(refs)]
             paragraph_text == Strip(JoinTexts(p))
             is_heading == Len(paragraph_text) <= HeadingLimit /\ Len(p) = 1
             has_multiple_runs == Len(p) > 1
             rs == RunEntries(Head(refs), p, st.run_counter)
             next ==
                 IF paragraph_text = <<>> THEN st
                 ELSE IF has_multiple_runs \/ is_heading
                 THEN [st EXCEPT
                         !.entries = Append(@, [id |-> "para_" \o ToString(st.paragraph_counter),
                                                ref |-> Head(refs), run |-> 0,
                                                text |-> paragraph_text]),
                         !.paragraph_counter = @ + 1]
                 ELSE [st EXCEPT !.entries = @ \o rs, !.run_counter = @ + Len(rs)]
         IN  extract_from_text_frame(Tail(refs), ps, next)

\* the text frames extract_texts visits for one shape of slide.shapes: the
\* shape's own, those of the shapes directly inside a group, the cells of a
\* table, the title of a chart
ShapeFrames(shape) ==
    CASE shape.kind = "text" -> << shape.paras >>
      [] shape.kind = "group" ->
            LET subs == SelectSeq(shape.shapes, LAMBDA sub : sub.kind = "text")
            IN  [k \in 1..Len(subs) |-> subs[k].paras]
      [] shape.kind = "table" -> Concat(shape.rows)
      [] shape.kind = "chart" -> << shape.title >>
      [] OTHER -> <<>>

\* the text frames of a slide in the order of the visit, the notes last
SlideFrames(slide) ==
    Concat([k \in 1..Len(slide.shapes) |-> ShapeFrames(slide.shapes[k])])
        \o (IF slide.has_notes_slide THEN << slide.notes >> ELSE <<>>)

RECURSIVE FramesFold(_, _, _)
FramesFold(frames, ps, st) ==
    IF frames = <<>> THEN st
    ELSE FramesFold(Tail(frames), ps, extract_from_text_frame(Head(frames), ps, st))

\* text_mapping of PPTXService.extract_texts
extract_texts(sl, ps) ==
    FramesFold(Concat([i \in 1..Len(sl) |-> SlideFrames(sl[i])]), ps,
               [entries |-> <<>>, run_counter |-> 0, paragraph_counter |-> 0]).entries

-----------------------------------------------------------------------------
(* The translation call: translate_text_batch *)

\* the ways the call fails: no API key, an error of the request, an interrupt
\* while the request is out, an empty response, a response that is not JSON,
\* JSON that is not an object
TranslateFailures ==
    {"no_api_key", "api_error", "cancelled", "empty_response", "not_json", "not_object"}

\* a failure raised before the request is sent
BeforeRequest(kind) == kind = "no_api_key"

\* a value of the returned JSON object that is not a string
NonString == << "<number>" >>

\* an id the walk never gives
UnknownId == "s9_sh9_p9"

\* values of the returned object
ResponseValues == {Ola, Concat(<<BOLD_START, Ola, BOLD_END, Mundo>>), NonString}

\* an assembler that catches the exception and goes on
AfterTranslateError_Swallowed == "applying"

\* where process_presentation is once translate_text_batch has raised: the
\* exception is not caught
AfterTranslateError == "raised"

-----------------------------------------------------------------------------
(* The assembler: process_presentation *)

\* the call has not returned
NoReturn == [kind |-> "unset"]

\* the value of a bare return, and of running off the end of the function
ReturnsNone == [kind |-> "None"]

FunctionIdle ==
    /\ fpc = "idle" /\ runs = <<>> /\ runs0 = <<>> /\ marked = <<>>

PipelineIdle ==
    /\ pc = "idle" /\ slides = <<>> /\ paras = <<>> /\ paras0 = <<>>
    /\ outDir = "exists" /\ paragraph_runs = <<>> /\ texts_to_translate = <<>>
    /\ translated_paragraphs = <<>> /\ pending = {} /\ calls = 0
    /\ submitted = <<>> /\ returned = NoReturn
    /\ saved = <<>> /\ error = "none"
    /\ rewalk = <<>> /\ text_mapping = NotExtracted

\* the paragraphs a presentation is made of: no run, a run of whitespace, a
\* run of whitespace and an empty one, one run, a bold run followed by a plain one
ParaChoices ==
    { <<>>,
      << Run(Space, "None", "None") >>,
      << Run(Space, "True", "None"), Run(Empty, "None", "None") >>,
      << Run(Hello, "None", "None") >>,
      << Run(Hello, "True", "False"), Run(World, "False", "None") >> }

Range(a, b) == [i \in 1..(b + 1 - a) |-> a + i - 1]

\* shape trees over the paragraphs 1..n
Layouts(n) ==
    { << Slide(<< TextShape(Range(1, n)) >>, <<>>) >>,
      << Slide(<< Picture,
                  GroupShape(<< GroupShape(<< TextShape(Range(1, 1)) >>),
                                TableShape(<< << Range(2, n) >> >>) >>) >>, <<>>) >>,
      << Slide(<< ChartShape(Range(1, 1)) >>, Range(2, n)) >>,
      << Slide(<< TableShape(<< << Range(1, 1) >>, << Range(2, n) >> >>) >>, <<>>) >>,
      << Slide(<< TextShape(Range(1, 1)) >>, <<>>),
         Slide(<< TextShape(Range(2, n)) >>, <<>>) >> }

\* prs = Presentation(input_filepath) has been read
Init ==
    /\ FunctionIdle
    /\ pc = "loaded"
    /\ \E n \in 1..MaxParas :
          /\ slides \in Layouts(n)
          /\ paras \in [1..n -> ParaChoices]
    /\ paras0 = paras
    /\ outDir \in {"exists", "missing", "none"}
    /\ paragraph_runs = <<>>
    /\ texts_to_translate = <<>>
    /\ translated_paragraphs = <<>>
    /\ pending = {}
    /\ calls = 0
    /\ submitted = <<>>
    /\ returned = NoReturn
    /\ saved = <<>>
    /\ error = "none"
    /\ rewalk = <<>>
    /\ text_mapping = NotExtracted

\* a walk that empties the runs it has read
Extract_Clearing ==
    /\ pc = "loaded"
    /\ paragraph_runs' = extract_paragraphs_with_run_mapping(slides, paras)
    /\ texts_to_translate' = MarkedTexts(paragraph_runs', paras)
    /\ paras' = [r \in DOMAIN paras |-> ClearRuns(paras[r])]
    /\ pc' = "marked"
    /\ UNCHANGED <<slides, paras0, outDir, translated_paragraphs, pending,
                   calls, submitted, returned, saved, error>>

\* the walk and the marking of every paragraph
Extract ==
    /\ pc = "loaded"
    /\ paragraph_runs' = extract_paragraphs_with_run_mapping(slides, paras)
    /\ texts_to_translate' = MarkedTexts(paragraph_runs', paras)
    /\ pc' = "marked"
    /\ UNCHANGED <<slides, paras, paras0, outDir, translated_paragraphs, pending,
                   calls, submitted, returned, saved, error>>

\* nothing to translate: prs.save(output_filepath) at once
SaveCopy ==
    /\ pc = "marked"
    /\ texts_to_translate = <<>>
    /\ IF outDir = "missing"
       THEN /\ pc' = "raised" /\ error' = "FileNotFoundError"
            /\ UNCHANGED <<saved, returned>>
       ELSE /\ pc' = "done" /\ saved' = << paras >> /\ returned' = ReturnsNone
            /\ UNCHANGED error
    /\ UNCHANGED <<slides, paras, paras0, outDir, paragraph_runs, texts_to_translate,
                   translated_paragraphs, pending, calls, submitted>>

\* translate_text_batch raises
TranslateFails ==
    /\ pc = "marked"
    /\ texts_to_translate # <<>>
    /\ \E kind \in TranslateFailures :
          /\ error' = kind
          /\ calls' = IF BeforeRequest(kind) THEN calls ELSE calls + 1
    /\ pc' = AfterTranslateError
    /\ submitted' = Append(submitted, texts_to_translate)
    /\ UNCHANGED <<slides, paras, paras0, outDir, paragraph_runs, texts_to_translate,
                   translated_paragraphs, pending, returned, saved>>

\* translate_text_batch returns the JSON object of the response, whatever its
\* keys and values
TranslateReturns ==
    /\ pc = "marked"
    /\ texts_to_translate # <<>>
    /\ \E ks \in SUBSET (Keys(texts_to_translate) \cup {UnknownId}) :
          /\ translated_paragraphs' \in [ks -> ResponseValues]
          /\ pending' = ks
    /\ calls' = calls + 1
    /\ submitted' = Append(submitted, texts_to_translate)
    /\ pc' = "applying"
    /\ UNCHANGED <<slides, paras, paras0, outDir, paragraph_runs, texts_to_translate,
                   returned, saved, error>>

\* one pass of the apply loop for a paragraph of the walk and a string
ApplyTranslated ==
    /\ pc = "applying"
    /\ \E id \in pending :
          /\ id \in Keys(paragraph_runs)
          /\ translated_paragraphs[id] # NonString
          /\ paras' = [paras EXCEPT ![RefOf(paragraph_runs, id)] =
                          apply_formatted_text_to_runs(@, translated_paragraphs[id])]
          /\ pending' = pending \ {id}
    /\ UNCHANGED <<pc, slides, paras0, outDir, paragraph_runs, texts_to_translate,
                   translated_paragraphs, calls, submitted, returned, saved, error>>

\* one pass of the apply loop for a value that is no string: the runs are
\* cleared, then replace or re.split raises
ApplyRaises ==
    /\ pc = "applying"
    /\ \E id \in pending :
          /\ id \in Keys(paragraph_runs)
          /\ translated_paragraphs[id] = NonString
          /\ paras' = [paras EXCEPT ![RefOf(paragraph_runs, id)] = ClearRuns(@)]
          /\ error' = IF Len(paras[RefOf(paragraph_runs, id)]) = 1
                      THEN "AttributeError" ELSE "TypeError"
          /\ pending' = pending \ {id}
    /\ pc' = "raised"
    /\ UNCHANGED <<slides, paras0, outDir, paragraph_runs, texts_to_translate,
                   translated_paragraphs, calls, submitted, returned, saved>>

\* an apply loop that looks up every returned id
SkipUnknown_KeyError ==
    /\ pc = "applying"
    /\ \E id \in pending :
          /\ id \notin Keys(paragraph_runs)
          /\ pending' = pending \ {id}
    /\ pc' = "raised"
    /\ error' = "KeyError"
    /\ UNCHANGED <<slides, paras, paras0, outDir, paragraph_runs,
                   texts_to_translate, translated_paragraphs, calls, submitted,
                   returned, saved>>

\* one pass of the apply loop for an id that is not in paragraph_runs
SkipUnknown ==
    /\ pc = "applying"
    /\ \E id \in pending :
          /\ id \notin Keys(paragraph_runs)
          /\ pending' = pending \ {id}
    /\ UNCHANGED <<pc, slides, paras, paras0, outDir, paragraph_runs,
                   texts_to_translate, translated_paragraphs, calls, submitted,
                   returned, saved, error>>

\* ensure the output directory exists: os.makedirs(os.path.dirname(output_filepath))
\* unless it exists; os.path.exists("") is false and os.makedirs("") raises
EnsureOutputDir ==
    /\ pc = "applying"
    /\ pending = {}
    /\ IF outDir = "none"
       THEN pc' = "raised" /\ error' = "FileNotFoundError" /\ UNCHANGED outDir
       ELSE pc' = "saving" /\ outDir' = "exists" /\ UNCHANGED error
    /\ UNCHANGED <<slides, paras, paras0, paragraph_runs, texts_to_translate,
                   translated_paragraphs, pending, calls, submitted, returned, saved>>

\* prs.save(output_filepath)
Save ==
    /\ pc = "saving"
    /\ saved' = << paras >>
    /\ returned' = ReturnsNone
    /\ pc' = "done"
    /\ UNCHANGED <<slides, paras, paras0, outDir, paragraph_runs, texts_to_translate,
                   translated_paragraphs, pending, calls, submitted, error>>

Next ==
    \/ (Extract /\ UNCHANGED <<fvars, wvars>>)
    \/ (SaveCopy /\ UNCHANGED <<fvars, wvars>>)
    \/ (TranslateFails /\ UNCHANGED <<fvars, wvars>>)
    \/ (TranslateReturns /\ UNCHANGED <<fvars, wvars>>)
    \/ (ApplyTranslated /\ UNCHANGED <<fvars, wvars>>)
    \/ (ApplyRaises /\ UNCHANGED <<fvars, wvars>>)
    \/ (SkipUnknown /\ UNCHANGED <<fvars, wvars>>)
    \/ (EnsureOutputDir /\ UNCHANGED <<fvars, wvars>>)
    \/ (Save /\ UNCHANGED <<fvars, wvars>>)

Spec == Init /\ [][Next]_vars

-----------------------------------------------------------------------------
(* The walker on its own: a presentation is drawn and walked twice; between *)
(* the walks a translation may be applied to its paragraphs                 *)

RECURSIVE Nest(_, _)
\* a shape inside d groups
Nest(d, shape) == IF d = 0 THEN shape ELSE GroupShape(<< Nest(d - 1, shape) >>)

\* a text shape inside one group, two groups, ...
NestedLayouts(n) ==
    { << Slide(<< Picture, Nest(d, TextShape(Range(1, n))) >>, <<>>) >> : d \in 1..MaxDepth }

InitWalk ==
    /\ FunctionIdle
    /\ pc = "first"
    /\ \E n \in 1..MaxParas :
          /\ slides \in Layouts(n) \cup NestedLayouts(n)
          /\ paras \in [1..n -> ParaChoices]
    /\ paras0 = paras
    /\ outDir = "exists" /\ paragraph_runs = <<>> /\ texts_to_translate = <<>>
    /\ translated_paragraphs = <<>> /\ pending = {} /\ calls = 0
    /\ submitted = <<>> /\ returned = NoReturn
    /\ saved = <<>> /\ error = "none"
    /\ rewalk = <<>> /\ text_mapping = NotExtracted

\* texts = self.pptx_service.extract_texts(file_path), on the presentation as loaded
ExtractTexts ==
    /\ pc = "first"
    /\ ~text_mapping.done
    /\ text_mapping' = [done |-> TRUE, entries |-> extract_texts(slides, paras)]
    /\ UNCHANGED <<pc, slides, paras, paras0, outDir, paragraph_runs, texts_to_translate,
                   translated_paragraphs, pending, calls, submitted, returned,
                   saved, error, rewalk>>

\* paragraph_texts, paragraph_runs = extract_paragraphs_with_run_mapping(prs)
WalkFirst ==
    /\ pc = "first"
    /\ paragraph_runs' = extract_paragraphs_with_run_mapping(slides, paras)
    /\ pc' = "second"
    /\ UNCHANGED <<slides, paras, paras0, outDir, texts_to_translate,
                   translated_paragraphs, pending, calls, submitted, returned,
                   saved, error, rewalk, text_mapping>>

\* strings applied to a paragraph between the walks: a word, whitespace
BetweenWalks == {Ola, Space}

\* the presentation is modified: a string is applied to the runs of a paragraph
ModifyParagraph ==
    /\ pc = "second"
    /\ \E r \in DOMAIN paras : \E t \in BetweenWalks :
          paras' = [paras EXCEPT ![r] = apply_formatted_text_to_runs(@, t)]
    /\ UNCHANGED <<pc, slides, paras0, outDir, paragraph_runs, texts_to_translate,
                   translated_paragraphs, pending, calls, submitted, returned,
                   saved, error, rewalk, text_mapping>>

\* the same presentation object is walked again
WalkSecond ==
    /\ pc = "second"
    /\ rewalk' = extract_paragraphs_with_run_mapping(slides, paras)
    /\ pc' = "twice"
    /\ UNCHANGED <<slides, paras, paras0, outDir, paragraph_runs, texts_to_translate,
                   translated_paragraphs, pending, calls, submitted, returned,
                   saved, error, text_mapping>>

NextWalk ==
    \/ (ExtractTexts /\ UNCHANGED fvars)
    \/ (WalkFirst /\ UNCHANGED fvars)
    \/ (ModifyParagraph /\ UNCHANGED fvars)
    \/ (WalkSecond /\ UNCHANGED fvars)

SpecWalk == InitWalk /\ [][NextWalk]_vars

-----------------------------------------------------------------------------
(* The encoder on its own: a paragraph is drawn, then encoded *)

\* run texts of the encoder's paragraphs: empty, a word, and a word that
\* reads like a marker
EncTexts == {Empty, Hello, BOLD_START}

EncRuns == {Run(t, b, i) : t \in EncTexts, b \in Tri, i \in Tri}

\* the paragraph of the specification's scenario: "Hello " in bold, then "World"
\* plain, a flag that is not set being False or None
ScenarioParagraphs ==
    { << Run(Hello, "True", i1), Run(World, b2, i2) >> :
          i1 \in {"False", "None"}, b2 \in {"False", "None"}, i2 \in {"False", "None"} }

InitEnc ==
    /\ PipelineIdle
    /\ fpc = "ready"
    /\ \/ \E n \in 0..MaxEncRuns : runs \in [1..n -> EncRuns]
       \/ runs \in ScenarioParagraphs
    /\ runs0 = runs
    /\ marked = <<>>

\* marked_text = create_formatted_text_with_markers(runs)
Encode ==
    /\ fpc = "ready"
    /\ marked' = create_formatted_text_with_markers(runs)
    /\ fpc' = "done"
    /\ UNCHANGED <<runs, runs0>>
    /\ UNCHANGED <<pvars, wvars>>

SpecEnc == InitEnc /\ [][Encode]_vars

-----------------------------------------------------------------------------
(* The decoder on its own: a paragraph and a translated string are drawn,   *)
(* then the string is applied to the paragraph's runs                       *)

\* apply_formatted_text_to_runs(runs, marked)
Decode ==
    /\ fpc = "ready"
    /\ runs' = apply_formatted_text_to_runs(runs, marked)
    /\ fpc' = "done"
    /\ UNCHANGED <<runs0, marked>>
    /\ UNCHANGED <<pvars, wvars>>

\* the runs of a paragraph before translation: some text, any flags
DecRuns == {Run(Hello, b, i) : b \in Tri, i \in Tri}

\* parts of markers, which are text
BoldPart   == <<"<","B","O","L","D","_">>
ItalicPart == <<"<","I","T","A","L","I","C","_">>
StartPart  == <<"S","T","A","R","T",">">>

\* text in angle brackets that is no marker: a marker in lower case
LowerToken == <<"<","b","o","l","d","_","s","t","a","r","t",">">>

\* a marker with whitespace in it
SpacedToken == <<"<","B","O","L","D","_","E","N","D"," ",">">>

SinglePieces ==
    {BOLD_START, BOLD_END, ITALIC_START, ITALIC_END, Ola, Space,
     BoldPart, ItalicPart, StartPart, LowerToken, SpacedToken}

InitSingle ==
    /\ PipelineIdle
    /\ fpc = "ready"
    /\ \E n \in 0..1 : runs \in [1..n -> DecRuns]
    /\ runs0 = runs
    /\ \E n \in 0..MaxSinglePieces :
          \E p \in [1..n -> SinglePieces] : marked = Concat(p)

SpecSingle == InitSingle /\ [][Decode]_vars

DecPieces == {BOLD_START, BOLD_END, ITALIC_START, ITALIC_END, Ola, Mundo, Space}

\* translated strings of more pieces: the scenarios of the specification
ScenarioStrings ==
    { Concat(<<BOLD_START, Ola, BOLD_END, Mundo>>),
      Concat(<<Ola, BOLD_START, Mundo, BOLD_END>>),
      Concat(<<BOLD_START, Ola, BOLD_END, Space, ITALIC_START, Mundo, ITALIC_END>>),
      Concat(<<Ola, BOLD_START, Mundo, BOLD_END, Ola, ITALIC_START, Mundo>>),
      Concat(<<BOLD_START, ITALIC_START, Ola, ITALIC_END, Mundo, BOLD_END, Ola>>),
      Concat(<<BOLD_END, ITALIC_END, Ola, BOLD_START, Mundo, BOLD_END>>),
      Concat(<<Ola, BOLD_START, Space, BOLD_END, Mundo>>),
      Concat(<<BOLD_START, Ola, BOLD_END, Mundo, ITALIC_START, Ola, ITALIC_END, Mundo>>),
      Concat(<<Ola, BoldPart, BOLD_START, StartPart, Mundo>>),
      Concat(<<Ola, LowerToken, BOLD_START, Mundo, LowerToken>>),
      Concat(<<BOLD_START, Ola, SpacedToken, Mundo>>),
      Concat(<<ITALIC_START, Ola, BOLD_START, Mundo>>),
      Concat(<<Ola, Mundo>>),
      Concat(<<BOLD_START, BOLD_END, Ola>>) }

InitDec ==
    /\ PipelineIdle
    /\ fpc = "ready"
    /\ \E n \in 2..MaxDecRuns : runs \in [1..n -> DecRuns]
    /\ runs0 = runs
    /\ \/ \E n \in 0..MaxPieces :
             \E p \in [1..n -> DecPieces] : marked = Concat(p)
       \/ marked \in ScenarioStrings

SpecDec == InitDec /\ [][Decode]_vars

-----------------------------------------------------------------------------
(* Encoder and decoder in a row: a paragraph is drawn and encoded, and the  *)
(* marked string is applied to the paragraph's runs as it is                 *)

\* runs of the paragraphs that make the round: a word, whitespace or no text,
\* any flags
RoundRuns == {Run(t, b, i) : t \in {Hello, Space, Empty}, b \in Tri, i \in Tri}

InitRound ==
    /\ PipelineIdle
    /\ fpc = "round"
    /\ \E n \in 2..MaxRoundRuns : runs \in [1..n -> RoundRuns]
    /\ runs0 = runs
    /\ marked = <<>>

\* marked_text = create_formatted_text_with_markers(runs)
EncodeParagraph ==
    /\ fpc = "round"
    /\ marked' = create_formatted_text_with_markers(runs)
    /\ fpc' = "encoded"
    /\ UNCHANGED <<runs, runs0>>
    /\ UNCHANGED <<pvars, wvars>>

\* apply_formatted_text_to_runs(original_runs, translated_marked_text), the
\* translation being the marked text itself
ApplyBack ==
    /\ fpc = "encoded"
    /\ runs' = apply_formatted_text_to_runs(runs, marked)
    /\ fpc' = "applied"
    /\ UNCHANGED <<runs0, marked>>
    /\ UNCHANGED <<pvars, wvars>>

NextRound == EncodeParagraph \/ ApplyBack

SpecRound == InitRound /\ [][NextRound]_vars

-----------------------------------------------------------------------------
(* Notions the claims are stated in *)

IsMarker(part) == \E k \in 1..Len(Markers) : part = Markers[k]

IsFragment(part) == ~IsMarker(part)

IsSegment(part) == ~IsMarker(part) /\ NonBlank(part)

\* the markers of a string, in order
TokensOf(s) == SelectSeq(Split(s), IsMarker)

\* the string with the occurrences of the four markers taken out
WithoutTokens(s) == Concat(SelectSeq(Split(s), IsFragment))

\* the text segments the decoder finds in a string, in order
SegmentsOf(s) == SelectSeq(Split(s), IsSegment)

TokenFreeTexts(rs) == \A i \in 1..Len(rs) : ~ContainsToken(rs[i].text)

\* how often tok is among the first n of toks
CountIn(toks, n, tok) == Cardinality({j \in 1..n : toks[j] = tok})

\* opens and closes pair up: as many closes as opens, and no close before its open
Paired(s, open, close) ==
    LET toks == TokensOf(s)
    IN  /\ CountIn(toks, Len(toks), open) = CountIn(toks, Len(toks), close)
        /\ \A n \in 0..Len(toks) : CountIn(toks, n, close) <= CountIn(toks, n, open)

\* every open is followed, later in the string, by a close
EveryOpenClosed(s, open, close) ==
    LET toks == TokensOf(s)
    IN  \A j \in 1..Len(toks) :
            toks[j] = open => \E k \in (j + 1)..Len(toks) : toks[k] = close

EndsWith(s, t) == Len(s) >= Len(t) /\ SubSeq(s, Len(s) - Len(t) + 1, Len(s)) = t

IsPlain(run) == OrFalse(run.bold) = "False" /\ OrFalse(run.italic) = "False"

\* the runs with text, in order
WithText(rs) == SelectSeq(rs, LAMBDA r : r.text # <<>>)

ScenarioOlaMundo == Concat(<<BOLD_START, Ola, BOLD_END, Mundo>>)

-----------------------------------------------------------------------------
(* Claims *)

\* C1 (as stated): for a paragraph with exactly one run and any translated
\* string, the decoder leaves the run with the translated string less every
\* occurrence of the four markers, and with its bold and italic flags as they were.
C1_SingleRunBypass ==
    (fpc = "done" /\ Len(runs0) = 1) =>
        /\ runs[1].text = WithoutTokens(marked)
        /\ runs[1].bold = runs0[1].bold
        /\ runs[1].italic = runs0[1].italic

\* C2 (as stated): a paragraph whose runs are all non-bold and non-italic and
\* hold no marker text is encoded to the concatenation of its run texts, with no
\* marker in it.
C2_PlainEncodesToText ==
    (fpc = "done" /\ TokenFreeTexts(runs0) /\ \A i \in 1..Len(runs0) : IsPlain(runs0[i])) =>
        /\ marked = JoinTexts(runs0)
        /\ TokensOf(marked) = <<>>

\* C3 (as stated): the bold run "Hello " followed by the plain run "World" is
\* encoded to "<BOLD_START>Hello <BOLD_END>World".
C3_EncodingScenario ==
    (/\ fpc = "done"
     /\ Len(runs0) = 2
     /\ runs0[1].text = Hello /\ runs0[1].bold = "True"
     /\ OrFalse(runs0[1].italic) = "False"
     /\ runs0[2].text = World /\ IsPlain(runs0[2])) =>
        marked = Concat(<<BOLD_START, Hello, BOLD_END, World>>)

\* C4 (as stated): applying "<BOLD_START>Olá <BOLD_END>Mundo" to a bold run
\* followed by a run whose bold flag is False or None leaves run 1 with "Olá "
\* and bold True, and run 2 with "Mundo" and bold False.
C4_DecodingScenario ==
    (/\ fpc = "done"
     /\ Len(runs0) = 2
     /\ runs0[1].bold = "True"
     /\ runs0[2].bold \in {"False", "None"}
     /\ marked = ScenarioOlaMundo) =>
        /\ runs[1].text = Ola /\ runs[1].bold = "True"
        /\ runs[2].text = Mundo /\ runs[2].bold = "False"

\* C4 (amended): in that scenario run 1 holds "Olá " with bold True and run 2
\* holds "Mundo"; run 2's bold flag is False if it was False and still None if
\* it was None.
C4_DecodingScenarioAmended ==
    (/\ fpc = "done"
     /\ Len(runs0) = 2
     /\ runs0[1].bold = "True"
     /\ runs0[2].bold \in {"False", "None"}
     /\ marked = ScenarioOlaMundo) =>
        /\ runs[1].text = Ola /\ runs[1].bold = "True"
        /\ runs[2].text = Mundo /\ runs[2].bold = runs0[2].bold

\* C4 witness: the scenario was applied to a paragraph whose second run had no
\* bold flag set.
C4_Witness ==
    /\ fpc = "done"
    /\ Len(runs0) = 2
    /\ runs0[1].bold = "True"
    /\ runs0[2].bold = "None"
    /\ marked = ScenarioOlaMundo
    /\ runs[2].text = Mundo

\* C5 (as stated): in the encoding of runs that hold no marker text, the bold
\* markers pair up (as many ends as starts, no end before its start), and so
\* do the italic markers.
C5_TokenConservation ==
    (fpc = "done" /\ TokenFreeTexts(runs0)) =>
        /\ Paired(marked, BOLD_START, BOLD_END)
        /\ Paired(marked, ITALIC_START, ITALIC_END)

C7_FewerSegments ==
    (fpc = "done" /\ Len(runs0) > 1 /\ Len(SegmentsOf(marked)) < Len(runs0)) =>
        LET segs == SegmentsOf(marked)
        IN  /\ Len(runs) = Len(runs0)
            /\ \A i \in 1..Len(runs) :
                 /\ i <= Len(segs) => runs[i].text = segs[i]
                 /\ i > Len(segs) => runs[i].text = <<>>
                 /\ runs[i].text # runs0[i].text

\* C7 witness: three runs received a string of two segments, and the third run
\* is empty.
C7_Witness ==
    /\ fpc = "done"
    /\ Len(runs0) = 3
    /\ Len(SegmentsOf(marked)) = 2
    /\ runs[1].text # <<>> /\ runs[2].text # <<>> /\ runs[3].text = <<>>

\* the translation call has returned a mapping
TranslationReturned == calls = 1 /\ error \notin TranslateFailures

\* process_presentation has ended, by returning or by an exception
Ended == pc \in {"done", "raised"}

\* the submitted ids the returned mapping lacks
MissingIds == Keys(texts_to_translate) \ DOMAIN translated_paragraphs

\* C8 (as stated): if the returned mapping, all of whose values are strings,
\* lacks a submitted id, process_presentation does not fail; when it has ended
\* the runs of that paragraph are as loaded, the paragraphs whose ids are
\* present hold their translation, and the document is saved.
C8_IdentityFallback ==
    (/\ Ended
     /\ TranslationReturned
     /\ MissingIds # {}
     /\ \A id \in DOMAIN translated_paragraphs :
            translated_paragraphs[id] # NonString) =>
        /\ pc = "done"
        /\ saved = << paras >>
        /\ \A id \in MissingIds :
              paras[RefOf(paragraph_runs, id)] = paras0[RefOf(paragraph_runs, id)]
        /\ \A id \in DOMAIN translated_paragraphs \cap Keys(paragraph_runs) :
              paras[RefOf(paragraph_runs, id)] =
                  apply_formatted_text_to_runs(paras0[RefOf(paragraph_runs, id)],
                                               translated_paragraphs[id])

\* C8, the part that holds: where the output path has a directory (existing or
\* not yet), the call ends as C8 says.
C8_HoldsWithDirectory == outDir # "none" => C8_IdentityFallback

\* C9 (as stated): when the walk finds no translatable paragraph, the call ends
\* with success, without a translation call, with every run as loaded and with
\* the unmodified document written to the output location.
C9_EmptyShortCircuit ==
    (Ended /\ texts_to_translate = <<>>) =>
        /\ pc = "done"
        /\ calls = 0
        /\ paras = paras0
        /\ saved = << paras0 >>

\* C9, the part that holds: where the output directory is not missing, the call
\* ends as C9 says.
C9_HoldsWithDirectory == outDir # "missing" => C9_EmptyShortCircuit

\* C10: once the translation call has failed, process_presentation has ended
\* with that error, no run differs from the loaded document, nothing is left to
\* apply and no output document is written.
C10_TranslateFailureAtomic ==
    error \in TranslateFailures =>
        /\ pc = "raised"
        /\ paras = paras0
        /\ pending = {}
        /\ saved = <<>>

\* C10 witness: the response for a document of two translatable paragraphs was
\* not JSON, and the call has ended with that error.
C10_Witness ==
    /\ pc = "raised"
    /\ error = "not_json"
    /\ calls = 1
    /\ Len(texts_to_translate) = 2

\* the ids of the walk whose returned value is no string: the decoder raises
\* for them
RaisingIds ==
    {id \in DOMAIN translated_paragraphs \cap Keys(paragraph_runs) :
        translated_paragraphs[id] = NonString}

\* C11 (as stated): if the decoder raises for the returned value of a
\* paragraph, process_presentation does not abort: when it has ended that
\* paragraph's runs are as loaded, every other returned paragraph holds its
\* translation, the document is saved, and an error list is returned.
C11_FailureIsolation ==
    (Ended /\ TranslationReturned /\ RaisingIds # {}) =>
        /\ pc = "done"
        /\ saved = << paras >>
        /\ returned.kind = "dict"
        /\ \A id \in RaisingIds :
              paras[RefOf(paragraph_runs, id)] = paras0[RefOf(paragraph_runs, id)]
        /\ \A id \in (DOMAIN translated_paragraphs \cap Keys(paragraph_runs)) \ RaisingIds :
              paras[RefOf(paragraph_runs, id)] =
                  apply_formatted_text_to_runs(paras0[RefOf(paragraph_runs, id)],
                                               translated_paragraphs[id])

RECURSIVE FrameRefs(_)
\* the paragraphs of the text frames and table cells among shapes, those of
\* the shapes inside groups included, at any depth
FrameRefs(shapes) ==
    IF shapes = <<>> THEN {}
    ELSE LET sh == Head(shapes)
             here == CASE sh.kind = "text" -> {sh.paras[k] : k \in 1..Len(sh.paras)}
                       [] sh.kind = "group" -> FrameRefs(sh.shapes)
                       [] sh.kind = "table" ->
                            UNION { UNION { {sh.rows[r][c][k] : k \in 1..Len(sh.rows[r][c])} :
                                        c \in 1..Len(sh.rows[r]) } : r \in 1..Len(sh.rows) }
                       [] OTHER -> {}
         IN  here \cup FrameRefs(Tail(shapes))

\* the paragraphs of the notes frames
NotesRefs(sl) == UNION { {sl[i].notes[k] : k \in 1..Len(sl[i].notes)} : i \in 1..Len(sl) }

\* the paragraphs of the document in shape text frames, table cells and notes
DocRefs(sl) == NotesRefs(sl) \cup UNION { FrameRefs(sl[i].shapes) : i \in 1..Len(sl) }

\* a paragraph is translatable when its run texts, joined, are not blank
TranslatableRefs == {r \in DocRefs(slides) : NonBlank(JoinTexts(paras0[r]))}

\* the paragraphs a submitted mapping holds
RefsOf(mapping) == {RefOf(paragraph_runs, mapping[i].id) : i \in 1..Len(mapping)}

StatKeys == {"total_texts", "text_runs", "characters", "translated", "errors"}

\* C13 (as stated): a call of the assembler that succeeds returns statistics
\* holding the five counts, and all five are zero for a document with no
\* translatable paragraph.
C13_StatisticsReport ==
    pc = "done" =>
        /\ returned.kind = "dict"
        /\ StatKeys \subseteq DOMAIN returned.stats
        /\ TranslatableRefs = {} => \A k \in StatKeys : returned.stats[k] = 0

\* the paragraphs the walk holds
WalkRefs == {paragraph_runs[i].ref : i \in 1..Len(paragraph_runs)}

\* extract_paragraphs_with_run_mapping has walked the presentation as loaded
Walked == pc \in {"marked", "applying", "saving", "done", "raised", "second", "twice"}

\* C14: after the walk, a paragraph of a shape text frame, table cell or notes
\* frame has an id if and only if its joined run texts are not blank; a
\* paragraph without runs or with whitespace only is in neither mapping, and
\* every other paragraph is there exactly once, bound to its runs and its text.
C14_WalkerMembership ==
    Walked =>
        LET texts == paragraph_texts(slides, paras0)
        IN  /\ WalkRefs = TranslatableRefs
            /\ Len(paragraph_runs) = Cardinality(TranslatableRefs)
            /\ \A r \in DocRefs(slides) :
                  (paras0[r] = <<>> \/ ~NonBlank(JoinTexts(paras0[r]))) => r \notin WalkRefs
            /\ Keys(texts) = Keys(paragraph_runs)
            /\ Len(texts) = Len(paragraph_runs)
            /\ \A i \in 1..Len(texts) :
                  texts[i].text = JoinTexts(paras0[RefOf(paragraph_runs, texts[i].id)])

\* C14 witness: a document with a paragraph of two runs that hold whitespace
\* only and a paragraph of two runs with text was walked; the walk holds the
\* second alone.
C14_Witness ==
    /\ pc = "marked"
    /\ Len(paragraph_runs) = 1
    /\ \E r \in DocRefs(slides) :
          Len(paras0[r]) = 2 /\ paras0[r][1].text = Space /\ r \notin WalkRefs
    /\ \E r \in WalkRefs : Len(paras0[r]) = 2

\* a document of the same shape tree in which no paragraph is blank
AllText(ps) == [r \in DOMAIN ps |-> << Run(Hello, "None", "None") >>]

\* the ids the walk's loops give to the locations of the document, blank
\* paragraphs included (para_id is formed before the paragraph is looked at)
LocationIds(sl, ps) ==
    Concat([i \in 1..Len(sl) |-> SlideEntries(i - 1, sl[i], AllText(ps))])

\* C15: in one walk no two paragraph locations receive the same id, and no
\* paragraph's entry in the mapping is overwritten by another's; the ids of
\* PPTXService.extract_texts are distinct as well.
C15_WalkerIdsUnique ==
    /\ Walked =>
          LET locs == LocationIds(slides, paras0)
          IN  /\ \A i, j \in 1..Len(locs) : locs[i].id = locs[j].id => i = j
              /\ \A i, j \in 1..Len(paragraph_runs) :
                    paragraph_runs[i].id = paragraph_runs[j].id => i = j
              /\ \A r \in TranslatableRefs :
                    \E i \in 1..Len(paragraph_runs) : paragraph_runs[i].ref = r
    /\ text_mapping.done =>
          \A i, j \in 1..Len(text_mapping.entries) :
              text_mapping.entries[i].id = text_mapping.entries[j].id => i = j

\* C15 witness: a table with two rows of one cell each, both holding a
\* translatable first paragraph, was walked, and the walk holds two ids.
C15_Witness ==
    /\ pc = "second"
    /\ text_mapping.done
    /\ Len(text_mapping.entries) = 2
    /\ Len(slides) = 1
    /\ Len(slides[1].shapes) = 1
    /\ slides[1].shapes[1].kind = "table"
    /\ Len(slides[1].shapes[1].rows) = 2
    /\ Len(paragraph_runs) = 2
    /\ paragraph_runs[1].id # paragraph_runs[2].id

\* the texts a walk binds to its ids, for the paragraphs as they are in ps
TextsOf(d, ps) == [i \in 1..Len(d) |-> [id |-> d[i].id, text |-> JoinTexts(ps[d[i].ref])]]

RECURSIVE TextRefs(_)
\* the paragraphs of the text shapes among shapes and inside their groups, at
\* any depth
TextRefs(shapes) ==
    IF shapes = <<>> THEN {}
    ELSE LET sh == Head(shapes)
             here == CASE sh.kind = "text" -> {sh.paras[k] : k \in 1..Len(sh.paras)}
                       [] sh.kind = "group" -> TextRefs(sh.shapes)
                       [] OTHER -> {}
         IN  here \cup TextRefs(Tail(shapes))

\* the non-blank paragraphs of the text shapes that are inside a group
GroupedRefs ==
    {r \in UNION { UNION { IF slides[i].shapes[k].kind = "group"
                           THEN TextRefs(slides[i].shapes[k].shapes) ELSE {} :
                           k \in 1..Len(slides[i].shapes) } : i \in 1..Len(slides) } :
        NonBlank(JoinTexts(paras0[r]))}

\* the paragraphs text_mapping holds
MappedRefs == {text_mapping.entries[i].ref : i \in 1..Len(text_mapping.entries)}

\* C17, for _iter_shapes: the walk of extract_paragraphs_with_run_mapping holds
\* every non-blank paragraph of a text shape inside groups, however deep, under
\* an id of the form a top-level shape's paragraphs get.
C17_HoldsForIterShapes ==
    Walked =>
        \A r \in GroupedRefs :
            \E i \in 1..Len(paragraph_runs) :
                /\ paragraph_runs[i].ref = r
                /\ \E k \in 0..(MaxDepth + 2), j \in 0..MaxParas :
                      paragraph_runs[i].id =
                          "s0_sh" \o ToString(k) \o "_p" \o ToString(j)

\* C17 (as stated): each walker of the repository discovers the non-blank
\* paragraphs of a text shape nested inside groups at any depth.
C17_GroupRecursion ==
    /\ C17_HoldsForIterShapes
    /\ text_mapping.done => GroupedRefs \subseteq MappedRefs

\* C18 (as stated): whenever the translation call has returned a mapping, its
\* key set is the key set of the submitted mapping.
C18_KeySetEquality ==
    TranslationReturned => DOMAIN translated_paragraphs = Keys(texts_to_translate)

\* C19: no run of the document is changed before the translation call has
\* returned its mapping: while the call has not been made, is out, or has
\* failed or been interrupted, the document is as loaded.
C19_ApplyOnlyAfterReturn ==
    ~TranslationReturned => paras = paras0

\* C19 witness: the call for a document of two translatable paragraphs was
\* interrupted while the request was out, and the document is as loaded.
C19_Witness ==
    /\ pc = "raised"
    /\ error = "cancelled"
    /\ Len(submitted) = 1
    /\ Len(submitted[1]) = 2
    /\ paras = paras0

\* the places of the segments among the parts of a string
SegmentPlaces(parts) ==
    SelectSeq([k \in 1..Len(parts) |-> k], LAMBDA k : IsSegment(parts[k]))

\* the state a segment recovers: that of the last open or close marker before
\* it, False if there is none
StateAt(parts, k, open, close) ==
    LET toks == {j \in 1..(k - 1) : parts[j] \in {open, close}}
    IN  IF toks = {} THEN "False"
        ELSE LET last == CHOOSE j \in toks : \A i \in toks : i <= j
             IN  IF parts[last] = open THEN "True" ELSE "False"

\* C20: in a paragraph of several runs, a run whose bold flag is None before
\* the call has a None bold flag after it, and a run whose bold flag is True or
\* False and that receives a segment has the segment's bold state; likewise
\* for italic.
C20_UnsetFlagsKept ==
    (fpc = "done" /\ Len(runs0) > 1) =>
        LET parts == Split(marked)
            places == SegmentPlaces(parts)
        IN  \A i \in 1..Len(runs0) :
              /\ runs0[i].bold = "None" => runs[i].bold = "None"
              /\ runs0[i].italic = "None" => runs[i].italic = "None"
              /\ (runs0[i].bold # "None" /\ i <= Len(places)) =>
                    runs[i].bold = StateAt(parts, places[i], BOLD_START, BOLD_END)
              /\ (runs0[i].italic # "None" /\ i <= Len(places)) =>
                    runs[i].italic = StateAt(parts, places[i], ITALIC_START, ITALIC_END)

\* C20 witness: of two runs the first had no bold flag and the second was not
\* bold; the second segment of the string was bold; after the call the first
\* run still has no flag and the second is bold.
C20_Witness ==
    /\ fpc = "done"
    /\ Len(runs0) = 2
    /\ runs0[1].bold = "None" /\ runs0[2].bold = "False"
    /\ marked = Concat(<<Ola, BOLD_START, Mundo, BOLD_END>>)
    /\ runs[1].text = Ola /\ runs[1].bold = "None"
    /\ runs[2].text = Mundo /\ runs[2].bold = "True"

\* C21: when a paragraph of n > 1 runs receives a string that decodes to more
\* than n segments, the call returns, run i holds the text of segment i for
\* every i up to n, and the text of the later segments is written to no run:
\* the runs together hold the first n segments and nothing more.
C21_ExcessSegments ==
    (fpc = "done" /\ Len(runs0) > 1 /\ Len(SegmentsOf(marked)) > Len(runs0)) =>
        LET segs == SegmentsOf(marked)
        IN  /\ Len(runs) = Len(runs0)
            /\ \A i \in 1..Len(runs) : runs[i].text = segs[i]
            /\ JoinTexts(runs) = Concat(SubSeq(segs, 1, Len(runs)))

\* C21 witness: two runs received a string of four segments; they hold the
\* first two, and the string's last two segments went nowhere.
C21_Witness ==
    /\ fpc = "done"
    /\ Len(runs0) = 2
    /\ Len(SegmentsOf(marked)) = 4
    /\ runs[1].text = Ola
    /\ runs[2].text = Mundo

\* the places, among the parts of a string, of the fragments that are not
\* empty, those made of whitespace included
FragmentPlaces(parts) ==
    SelectSeq([k \in 1..Len(parts) |-> k],
              LAMBDA k : ~IsMarker(parts[k]) /\ parts[k] # <<>>)

\* C22 (as stated): in a paragraph of several runs every fragment of the
\* string that is not empty, one made of whitespace included, is a segment
\* with the state open at its place and takes the next run; only empty
\* fragments are dropped.
C22_SegmentFormation ==
    (fpc = "done" /\ Len(runs0) > 1) =>
        LET parts == Split(marked)
            places == FragmentPlaces(parts)
        IN  \A i \in 1..Len(runs0) :
              /\ i <= Len(places) =>
                    /\ runs[i].text = parts[places[i]]
                    /\ runs0[i].bold # "None" =>
                          runs[i].bold = StateAt(parts, places[i], BOLD_START, BOLD_END)
                    /\ runs0[i].italic # "None" =>
                          runs[i].italic = StateAt(parts, places[i], ITALIC_START, ITALIC_END)
              /\ i > Len(places) => runs[i].text = <<>>

RECURSIVE TrackAll(_, _, _, _)
\* the loop in which every run, one with empty text too, is handled as a run
\* with text is
TrackAll(rs, result, cb, ci) ==
    IF rs = <<>> THEN [result |-> result, cb |-> cb, ci |-> ci]
    ELSE LET st == EncodeRun(Head(rs), result, cb, ci)
         IN  TrackAll(Tail(rs), st.result, st.cb, st.ci)

\* C23 (as stated): a run with empty text takes part in the encoder's state
\* tracking: where its bold or italic state differs from the open one the
\* marker is emitted and the state flips, exactly as for a run with text.
C23_EmptyRunsTracked ==
    (fpc = "done" /\ runs0 # <<>>) =>
        LET st == TrackAll(runs0, <<>>, InitialFormat, InitialFormat)
        IN  marked = CloseOpen(st.result, st.cb, st.ci)

\* the text of a string that is not in its markers, in order
LiteralText(s) ==
    LET parts == Split(s)
        places == FragmentPlaces(parts)
    IN  Concat([i \in 1..Len(places) |-> parts[places[i]]])

\* C24, for several runs: the parts are cut at the four exact literals only;
\* a run that receives a segment holds it whole, with any other angle-bracket
\* text in it, and its flags follow the four literals alone.
C24_HoldsForSeveralRuns ==
    (fpc = "done" /\ Len(runs0) > 1) =>
        LET parts == Split(marked)
            places == SegmentPlaces(parts)
        IN  \A i \in 1..Len(runs0) :
              i <= Len(places) =>
                  /\ runs[i].text = parts[places[i]]
                  /\ runs[i].bold \in
                        {runs0[i].bold, StateAt(parts, places[i], BOLD_START, BOLD_END)}
                  /\ runs[i].italic \in
                        {runs0[i].italic, StateAt(parts, places[i], ITALIC_START, ITALIC_END)}

\* C24 (as stated): the decoder takes only the four exact literals for tokens;
\* any other text, other angle-bracket text included, stays in the runs as
\* literal text and changes no flag, for one run as for several.
C24_TokenRecognition ==
    /\ (fpc = "done" /\ Len(runs0) = 1) =>
          /\ runs[1].text = LiteralText(marked)
          /\ runs[1].bold = runs0[1].bold /\ runs[1].italic = runs0[1].italic
    /\ C24_HoldsForSeveralRuns

\* C25 (as stated): on every path of process_presentation that writes the
\* output, a missing output directory has been created before the save, and
\* neither the directory step nor a missing directory stops the save: the
\* call never ends with FileNotFoundError, and a call that is through with
\* its apply loop, or had nothing to translate, ends with the document saved.
C25_PersistCreatesDirectory ==
    /\ error # "FileNotFoundError"
    /\ saved # <<>> => outDir # "missing"
    /\ (Ended /\ error = "none") => (pc = "done" /\ saved = << paras >>)

RECURSIVE ChartRefs(_)
\* the paragraphs of the chart titles among shapes, groups included
ChartRefs(shapes) ==
    IF shapes = <<>> THEN {}
    ELSE LET sh == Head(shapes)
             here == CASE sh.kind = "chart" -> {sh.title[k] : k \in 1..Len(sh.title)}
                       [] sh.kind = "group" -> ChartRefs(sh.shapes)
                       [] OTHER -> {}
         IN  here \cup ChartRefs(Tail(shapes))

\* the non-blank paragraphs of every kind of text-bearing location: shape text
\* frames, shapes in groups, table cells, notes, chart titles
TextBearingRefs ==
    {r \in DocRefs(slides) \cup UNION { ChartRefs(slides[i].shapes) : i \in 1..Len(slides) } :
        NonBlank(JoinTexts(paras0[r]))}

\* C26 (as stated): the output of a walk holds the non-blank paragraphs of
\* every kind of text-bearing location, chart titles among them.
C26_WalkerCoverage ==
    /\ Walked => TextBearingRefs \subseteq WalkRefs
    /\ text_mapping.done => TextBearingRefs \subseteq MappedRefs

\* C27 (as stated): a paragraph of several runs whose texts hold no marker,
\* encoded and given its own encoding back, has the joined text it had: no
\* character is lost or added.
C27_RoundTripKeepsText ==
    (fpc = "applied" /\ Len(runs0) > 1 /\ TokenFreeTexts(runs0)) =>
        JoinTexts(runs) = JoinTexts(runs0)

\* C27, the part that holds: the joined text is kept when no run of the
\* paragraph holds whitespace only.
C27_HoldsWithoutBlankRuns ==
    (/\ fpc = "applied" /\ Len(runs0) > 1 /\ TokenFreeTexts(runs0)
     /\ \A i \in 1..Len(runs0) : runs0[i].text = <<>> \/ NonBlank(runs0[i].text)) =>
        JoinTexts(runs) = JoinTexts(runs0)

\* the errors that are not those of the translation call or of the output
\* directory: the errors of the apply loop
ApplyLoopError == error \notin TranslateFailures \cup {"none", "FileNotFoundError"}

\* C28: an id in the returned mapping that the walk did not produce raises no
\* error: an error of the apply loop comes from a value of a walked paragraph,
\* and with no such value and a usable output path the call ends with the
\* document saved; the runs of a paragraph outside the walk, a blank one in
\* particular, are never changed.
C28_UnknownIdsIgnored ==
    /\ Walked => \A r \in DOMAIN paras \ WalkRefs : paras[r] = paras0[r]
    /\ ApplyLoopError => RaisingIds # {}
    /\ (/\ Ended /\ TranslationReturned
        /\ UnknownId \in DOMAIN translated_paragraphs
        /\ RaisingIds = {} /\ outDir # "none") =>
            (pc = "done" /\ saved = << paras >>)

\* C28 witness: a document with a whitespace paragraph and a translatable one
\* was translated with a mapping that held an id of no paragraph; the call
\* ended with the translatable paragraph changed and the other as loaded.
C28_Witness ==
    /\ pc = "done"
    /\ UnknownId \in DOMAIN translated_paragraphs
    /\ paras # paras0
    /\ \E r \in DocRefs(slides) \ WalkRefs : paras0[r] # <<>> /\ paras[r] = paras0[r]

====
